---------------------------- MODULE Spec2Model ----------------------------
(***************************************************************************)
(* RFID indoor-positioning backend: the SQLite store (antenna, tag,        *)
(* record), the fingerprint assembler load_data_from_db, the window        *)
(* feature extractor sliding_window_features, the trainer train_rf_models  *)
(* and the evaluator evaluate_position of src/src/services/positioning.py, *)
(* and the collector collect_and_store_records of                          *)
(* src/src/services/tagsee.py.                                             *)
(*                                                                         *)
(* Conventions.  An id n stands for the TEXT id str(n) ("1", "2"): single  *)
(* digit ids sort as text exactly as they sort as numbers.  A timestamp t  *)
(* stands for the t-th instant of a fixed increasing list of datetimes.    *)
(* A number is the record [set, num, den]: the rational num/den when set,  *)
(* NaN / NULL when not set.                                                *)
(***************************************************************************)
EXTENDS Integers, Sequences, FiniteSets, TLC

\* ------------------------------------------------------------------ bounds
MaxRecords == 2      \* rows the record table may hold (Spec)
MaxReadings == 3     \* readings in a drawn snapshot (SpecPipeline)
MaxEvalReadings == 3  \* readings in a snapshot of a whole pipeline run (SpecEvaluation)
MaxWindow == 3       \* largest first_window_size / window_size tried
MaxMessages == 3     \* stream messages one run of the collector receives (SpecCollect)

TagIds == {1, 2}
AntennaIds == {1, 2}
Times == {1, 2, 3}
StoreTimes == 1..MaxRecords
\* the (rssi, rc) pairs a reading may carry, and the true coordinate a tag may carry
ReadingValues == {[rssi |-> -3, rc |-> 1], [rssi |-> -1, rc |-> 2]}
CoordValues == {0}

\* ----------------------------------------------------------------- numbers
NaN == [set |-> FALSE, num |-> 0, den |-> 1]

Abs(a) == IF a < 0 THEN -a ELSE a

RECURSIVE GCD(_, _)
GCD(a, b) == IF b = 0 THEN a ELSE GCD(b, a % b)

\* the rational n/d, d > 0, in lowest terms
Rat(n, d) ==
    LET g == GCD(Abs(n), d)
    IN  [set |-> TRUE, num |-> n \div g, den |-> d \div g]

Int2Num(n) == [set |-> TRUE, num |-> n, den |-> 1]

RECURSIVE SeqSum(_)
SeqSum(s) == IF s = <<>> THEN 0 ELSE Head(s) + SeqSum(Tail(s))

RECURSIVE SeqProd(_)
SeqProd(s) == IF s = <<>> THEN 1 ELSE Head(s) * SeqProd(Tail(s))

SetMin(S) == CHOOSE m \in S : \A o \in S : m <= o
SetMax(S) == CHOOSE m \in S : \A o \in S : m >= o

\* the elements of a finite set of integers in ascending order
RECURSIVE SortedSeq(_)
SortedSeq(S) ==
    IF S = {} THEN <<>> ELSE <<SetMin(S)>> \o SortedSeq(S \ {SetMin(S)})

Range(s) == {s[i] : i \in DOMAIN s}

\* ------------------------------------------------------------------- store
VARIABLES
    antenna,     \* table antenna: the antenna_id values present (x, y not modelled)
    tag,         \* table tag: tag_id -> [type, true_x, true_y, pred_x, pred_y]
    record,      \* table record: set of rows [record_id, tag_id, antenna_id, rc, rssi, read_time]
    last_id,     \* AUTOINCREMENT high-water mark of record.record_id
    pc,          \* "store" | "reading" | "loaded" | "features" | "trained" | "evaluated" | "failed"
    df_records,  \* the rows of table record load_data_from_db has read
    df_tags,     \* the rows (true_x, true_y by tag_id) of table tag it has read
    dbase,       \* DataFrame returned by load_data_from_db
    feats,       \* DataFrame returned by sliding_window_features
    first_window_size,
    window_size,
    num_features,
    models,      \* what train_rf_models handed to fit, and whether it returned
    error,       \* exception that ended the pipeline ("none" if none)
    results,     \* what evaluate_position computed and returned
    client       \* one run of collect_and_store_records against a TagSee service

storeVars == <<antenna, tag, record, last_id>>
pipeVars == <<pc, df_records, df_tags, dbase, feats, first_window_size, window_size,
             num_features, models, error, results>>
vars == <<antenna, tag, record, last_id, pc, df_records, df_tags, dbase, feats, first_window_size,
          window_size, num_features, models, error, results, client>>

EmptyFrame == [columns |-> <<>>, rows |-> <<>>]
NoModels == [fit_called |-> FALSE, X_columns |-> <<>>, n_samples |-> 0, returned |-> FALSE,
             labels_x |-> <<>>, labels_y |-> <<>>]
NoResults == [called |-> FALSE, returned |-> FALSE, columns |-> <<>>, rows |-> <<>>,
              predictions |-> <<>>]
\* collect_and_store_records not yet called: pc is the position in the function,
\* started whether start_reading returned, calls the service calls made in
\* order, seen the stream messages received, batch the batch handed to
\* insert_records, pending the exception that is leaving the stream, raised
\* the exception the function ended with, before the record table as it was
\* when the function was called
IdleClient == [pc |-> "idle", started |-> FALSE, calls |-> <<>>, seen |-> <<>>,
               batch |-> <<>>, pending |-> "none", raised |-> "none", before |-> {}]

\* Tag.__post_init__: the rows a Tag object can hold
TagValid(t) ==
    /\ t.type \in {"ref", "tar"}
    /\ (t.type = "ref" => ~t.pred_x.set /\ ~t.pred_y.set)

\* the CHECK constraints of table tag
TagCheck(t) ==
    /\ t.type \in {"ref", "tar"}
    /\ ((t.type = "ref" /\ ~t.pred_x.set /\ ~t.pred_y.set) \/ t.type = "tar")

\* the Tag objects the create_tag endpoint builds: no predicted coordinates
TagInputs ==
    {[type |-> ty, true_x |-> c, true_y |-> c, pred_x |-> NaN, pred_y |-> NaN] :
        ty \in {"ref", "tar"}, c \in {NaN} \cup {Int2Num(v) : v \in CoordValues}}

\* the Record objects handed to insert_record, with read_time among `times`
RecordInputs(times) ==
    {[tag_id |-> t, antenna_id |-> a, rc |-> v.rc, rssi |-> v.rssi, read_time |-> rt] :
        t \in TagIds, a \in AntennaIds, v \in ReadingValues, rt \in times}

insert_antenna(a) ==
    \* INSERT OR REPLACE deletes the old row first: ON DELETE RESTRICT refuses
    \* that while a record refers to the antenna
    /\ ~(a \in antenna /\ \E r \in record : r.antenna_id = a)
    /\ antenna' = antenna \cup {a}
    /\ UNCHANGED <<tag, record, last_id, pipeVars, client>>

insert_tag(id, t) ==
    /\ TagValid(t)
    /\ TagCheck(t)
    /\ tag' = [i \in DOMAIN tag \cup {id} |-> IF i = id THEN t ELSE tag[i]]
    \* INSERT OR REPLACE deletes the old row first: ON DELETE CASCADE takes the
    \* tag's records with it
    /\ record' = IF id \in DOMAIN tag
                   THEN {r \in record : r.tag_id # id}
                   ELSE record
    /\ UNCHANGED <<antenna, last_id, pipeVars, client>>

insert_record(r) ==
    /\ last_id < MaxRecords
    \* FOREIGN KEY (tag_id), FOREIGN KEY (antenna_id), foreign_keys = ON
    /\ r.tag_id \in DOMAIN tag
    /\ r.antenna_id \in antenna
    /\ last_id' = last_id + 1
    /\ record' = record \cup
          {[record_id |-> last_id + 1, tag_id |-> r.tag_id, antenna_id |-> r.antenna_id,
            rc |-> r.rc, rssi |-> r.rssi, read_time |-> r.read_time]}
    /\ UNCHANGED <<antenna, tag, pipeVars, client>>

\* the antenna ids of the rows of an uploaded file, in order
AntennaRows ==
    {<<>>} \cup {<<a>> : a \in AntennaIds}
           \cup {<<a1, a2>> : a1 \in AntennaIds, a2 \in AntennaIds}

\* upload_antennas: insert_antenna for every row of the file in one
\* get_connection() block; a refused row raises and nothing is committed
upload_antennas(rows) ==
    /\ \A i \in DOMAIN rows : ~(rows[i] \in antenna /\ \E r \in record : r.antenna_id = rows[i])
    /\ antenna' = antenna \cup Range(rows)
    /\ UNCHANGED <<tag, record, last_id, pipeVars, client>>

\* the rows pd.read_csv and iterrows hand to Tag(...): [tag_id, tag].  An id
\* of digits arrives as an integer and is stored as its text by the TEXT
\* column; an empty coordinate arrives as NaN and is stored as NULL.  The
\* files kept have no row, one row, or one row for each of two tags.
UploadRows ==
    {<<>>} \cup {<<[tag_id |-> id, tag |-> t]>> : id \in TagIds, t \in TagInputs}
           \cup {f \in {<<[tag_id |-> id1, tag |-> t1], [tag_id |-> id2, tag |-> t2]>> :
                            id1 \in TagIds, t1 \in TagInputs,
                            id2 \in TagIds, t2 \in TagInputs} :
                    f[1].tag_id < f[2].tag_id}

\* upload_tags: insert_tag for every row of the file in one get_connection()
\* block; every replaced tag loses its records (ON DELETE CASCADE)
upload_tags(rows) ==
    /\ \A i \in DOMAIN rows : TagValid(rows[i].tag) /\ TagCheck(rows[i].tag)
    /\ LET ids == {rows[i].tag_id : i \in DOMAIN rows}
           last(id) == SetMax({i \in DOMAIN rows : rows[i].tag_id = id})
       IN  /\ tag' = [id \in DOMAIN tag \cup ids |->
                        IF id \in ids THEN rows[last(id)].tag ELSE tag[id]]
           /\ record' = {r \in record : r.tag_id \notin ids \cap DOMAIN tag}
    /\ UNCHANGED <<antenna, last_id, pipeVars, client>>

\* every Tag object the constructor accepts: a target tag may carry predicted
\* coordinates
TagObjects ==
    {t \in [type : {"ref", "tar"},
            true_x : {NaN} \cup {Int2Num(v) : v \in CoordValues},
            true_y : {NaN} \cup {Int2Num(v) : v \in CoordValues},
            pred_x : {NaN} \cup {Int2Num(v) : v \in CoordValues},
            pred_y : {NaN} \cup {Int2Num(v) : v \in CoordValues}] :
        /\ TagValid(t)
        /\ t.true_x.set = t.true_y.set
        /\ t.pred_x.set = t.pred_y.set}

\* UPDATE tag SET ... WHERE tag_id = ?: no row is deleted, so no foreign-key
\* action runs; an id not in the table matches no row
update_tag(id, t) ==
    /\ TagValid(t)
    /\ TagCheck(t)
    /\ tag' = IF id \in DOMAIN tag THEN [tag EXCEPT ![id] = t] ELSE tag
    /\ UNCHANGED <<antenna, record, last_id, pipeVars, client>>

\* the batches readings_stream yields: up to two Record objects, rc = 1
BatchRecords == {r \in RecordInputs(StoreTimes) : r.rc = 1}
Batches == {<<>>} \cup {<<r>> : r \in BatchRecords}
              \cup {<<r1, r2>> : r1 \in BatchRecords, r2 \in BatchRecords}

\* every row of the batch satisfies the foreign keys of table record
BatchAccepted(batch) ==
    \A i \in DOMAIN batch : batch[i].tag_id \in DOMAIN tag /\ batch[i].antenna_id \in antenna

\* the rows executemany adds for the batch, numbered after last_id
BatchRows(batch) ==
    {[record_id |-> last_id + i, tag_id |-> batch[i].tag_id,
      antenna_id |-> batch[i].antenna_id, rc |-> batch[i].rc, rssi |-> batch[i].rssi,
      read_time |-> batch[i].read_time] : i \in DOMAIN batch}

\* insert_records(conn, batch) inside a get_connection() block: a row that
\* breaks a foreign key raises IntegrityError, the block does not commit, and
\* no row of the batch stays
insert_records(batch) ==
    /\ last_id + Len(batch) <= MaxRecords
    /\ BatchAccepted(batch)
    /\ record' = record \cup BatchRows(batch)
    /\ last_id' = last_id + Len(batch)
    /\ UNCHANGED <<antenna, tag, pipeVars, client>>

\* the three statements of reset_all over the tables [antenna, tag, record],
\* each with the foreign-key rule it meets: [ok, antenna, tag, record]
DeleteFromRecord(st) == [st EXCEPT !.record = {}]
\* ON DELETE CASCADE: the records of the deleted tags go with them
DeleteFromTag(st) == [st EXCEPT !.tag = <<>>, !.record = {}]
\* ON DELETE RESTRICT: refused while a record refers to an antenna
DeleteFromAntenna(st) ==
    IF \E r \in st.record : r.antenna_id \in st.antenna
      THEN [st EXCEPT !.ok = FALSE]
      ELSE [st EXCEPT !.antenna = {}]

\* the antenna table emptied first
ResetAllAntennaFirst(st) == DeleteFromTag(DeleteFromRecord(DeleteFromAntenna(st)))

\* DELETE FROM record; DELETE FROM tag; DELETE FROM antenna
ResetAll(st) == DeleteFromAntenna(DeleteFromTag(DeleteFromRecord(st)))

StoreNow == [ok |-> TRUE, antenna |-> antenna, tag |-> tag, record |-> record]

\* reset_all: commits if no statement was refused, otherwise the exception
\* leaves the block without a commit; the AUTOINCREMENT mark is kept
reset_all ==
    /\ ResetAll(StoreNow).ok
    /\ antenna' = ResetAll(StoreNow).antenna
    /\ tag' = ResetAll(StoreNow).tag
    /\ record' = ResetAll(StoreNow).record
    /\ UNCHANGED <<last_id, pipeVars, client>>

\* ---------------------------------------------------------------- collector
\* A stream message is [json, errorCode, type, tags]: json says whether the raw
\* text parses; a tag entry is [epc, antenna, rssi, lastSeenTime, firstSeenTime,
\* timestamp], rssi a number or None (NaN), a time field 0 when absent or empty,
\* a negative number when it is text that is not an ISO datetime.
EntryFields ==
    {[rssi |-> Int2Num(-3), lastSeenTime |-> 1, firstSeenTime |-> 2, timestamp |-> 2],
     [rssi |-> Int2Num(-1), lastSeenTime |-> 0, firstSeenTime |-> 2, timestamp |-> 1],
     [rssi |-> NaN, lastSeenTime |-> 0, firstSeenTime |-> 0, timestamp |-> 0],
     [rssi |-> Int2Num(-3), lastSeenTime |-> -1, firstSeenTime |-> 1, timestamp |-> 1]}

TagEntries ==
    {[epc |-> t, antenna |-> a, rssi |-> f.rssi, lastSeenTime |-> f.lastSeenTime,
      firstSeenTime |-> f.firstSeenTime, timestamp |-> f.timestamp] :
        t \in TagIds, a \in AntennaIds, f \in EntryFields}

EntryLists ==
    {<<>>} \cup {<<e>> : e \in TagEntries}
           \cup {<<e1, e2>> : e1 \in TagEntries, e2 \in TagEntries}

\* what the service may push: readings, heartbeats, error messages (with and
\* without tag entries), text that is not JSON
Messages ==
    {[json |-> TRUE, errorCode |-> 0, type |-> "reading", tags |-> l] : l \in EntryLists}
    \cup {[json |-> TRUE, errorCode |-> 0, type |-> "heartbeat", tags |-> <<>>],
          [json |-> TRUE, errorCode |-> 1, type |-> "heartbeat", tags |-> <<>>],
          [json |-> TRUE, errorCode |-> 1, type |-> "reading",
           tags |-> <<CHOOSE e \in TagEntries : e.epc = 1 /\ e.antenna = 1 /\ e.lastSeenTime = 1>>],
          [json |-> FALSE, errorCode |-> 0, type |-> "reading", tags |-> <<>>]}

\* only the message type is looked at
SkippedByTypeOnly(msg) == msg.type # "reading"

\* if msg.get("errorCode") != 0 or msg.get("type") != "reading": continue
Skipped(msg) == msg.errorCode # 0 \/ msg.type # "reading"

\* t.get("lastSeenTime") or t.get("firstSeenTime") or t.get("timestamp")
TimeStr(e) ==
    IF e.lastSeenTime # 0 THEN e.lastSeenTime
    ELSE IF e.firstSeenTime # 0 THEN e.firstSeenTime
    ELSE e.timestamp

\* datetime.now(): an instant after every instant the service reports
Now == SetMax(Times) + 1

\* datetime.fromisoformat raises ValueError on text that is no ISO datetime
EntryRaises(e) == TimeStr(e) < 0

\* the Record built for one tag entry
EntryRecord(e) ==
    [tag_id |-> e.epc, antenna_id |-> e.antenna, rc |-> 1,
     rssi |-> IF e.rssi.set THEN e.rssi.num ELSE 0,
     read_time |-> IF TimeStr(e) = 0 THEN Now ELSE TimeStr(e)]

\* the batch readings_stream yields for a reading message
MessageRecords(msg) == [i \in DOMAIN msg.tags |-> EntryRecord(msg.tags[i])]

\* executemany inserts row after row and stops at the first row that breaks a
\* foreign key: the rows before it are in the connection's open transaction
RECURSIVE AcceptedPrefix(_)
AcceptedPrefix(batch) ==
    IF batch = <<>> \/ ~BatchAccepted(<<Head(batch)>>) THEN <<>>
    ELSE <<Head(batch)>> \o AcceptedPrefix(Tail(batch))

\* how a call of the TagSee service ends: it returns ("none"), the service is
\* not reachable (requests.ConnectionError), it answers with an HTTP error
\* status (raise_for_status: HTTPError), or with errorCode != 0 (RuntimeError)
ServiceOutcomes == {"none", "ConnectionError", "HTTPError", "RuntimeError"}

\* stop_reading only after the loop, outside any finally
StopAfterLoopOnly(c, exc, stop) ==
    IF exc # "none" THEN [c EXCEPT !.pc = "raised", !.raised = exc]
    ELSE LET called == [c EXCEPT !.calls = Append(@, "stop_reading")]
         IN  IF stop # "none" THEN [called EXCEPT !.pc = "raised", !.raised = stop]
             ELSE [called EXCEPT !.pc = "returned"]

\* finally: client.stop_reading(ip), ending as stop says, then the function
\* ends: with the exception of stop_reading if it raised, else with the
\* pending exception exc, else by returning
Finally(c, exc, stop) ==
    LET called == [c EXCEPT !.calls = Append(@, "stop_reading")]
    IN  IF stop # "none" THEN [called EXCEPT !.pc = "raised", !.raised = stop]
        ELSE IF exc # "none" THEN [called EXCEPT !.pc = "raised", !.raised = exc]
        ELSE [called EXCEPT !.pc = "returned"]

\* client.start_reading(ip), ending as start says: if it raises, the function
\* ends before the try block
start_reading(start) ==
    /\ client.pc = "idle"
    /\ client' = IF start = "none"
                   THEN [client EXCEPT !.pc = "connecting", !.started = TRUE,
                                       !.calls = Append(@, "start_reading"),
                                       !.before = record]
                   ELSE [client EXCEPT !.pc = "raised", !.raised = start,
                                       !.calls = Append(@, "start_reading"),
                                       !.before = record]
    /\ UNCHANGED <<storeVars, pipeVars>>

\* async with websockets.connect(self.ws_url): if the connection fails the
\* exception goes straight to finally
connect(ok, stop) ==
    /\ client.pc = "connecting"
    /\ client' = IF ok THEN [client EXCEPT !.pc = "streaming"]
                   ELSE Finally(client, "ConnectionRefusedError", stop)
    /\ UNCHANGED <<storeVars, pipeVars>>

\* one message of the stream: skipped; or refused with an exception, which
\* leaves the async with block (the close of the socket is awaited before
\* finally runs); or turned into a batch that is handed to insert_records,
\* after which the loop breaks and finally runs without a suspension
readings_stream(msg, stop) ==
    /\ client.pc = "streaming"
    /\ Len(client.seen) < MaxMessages
    /\ LET c == [client EXCEPT !.seen = Append(@, msg)]
           batch == MessageRecords(msg)
           stored == AcceptedPrefix(batch)
       IN  IF ~msg.json
             THEN /\ client' = [c EXCEPT !.pc = "closing", !.pending = "JSONDecodeError"]
                  /\ UNCHANGED <<record, last_id>>
           ELSE IF Skipped(msg)
             THEN /\ client' = c
                  /\ UNCHANGED <<record, last_id>>
           ELSE IF \E i \in DOMAIN msg.tags : EntryRaises(msg.tags[i])
             THEN /\ client' = [c EXCEPT !.pc = "closing", !.pending = "ValueError"]
                  /\ UNCHANGED <<record, last_id>>
           ELSE /\ record' = record \cup BatchRows(stored)
                /\ last_id' = last_id + Len(stored)
                /\ client' = Finally([c EXCEPT !.batch = batch],
                                     IF stored = batch THEN "none" ELSE "IntegrityError",
                                     stop)
    /\ UNCHANGED <<antenna, tag, pipeVars>>

\* the stream ends before any reading message: the connection is closed
\* normally (the loop ends) or abnormally (ConnectionClosedError), and the
\* async with block is left
stream_end(exc) ==
    /\ client.pc = "streaming"
    /\ client' = [client EXCEPT !.pc = "closing", !.pending = exc]
    /\ UNCHANGED <<storeVars, pipeVars>>

\* the socket has closed: the generator ends with the pending exception, if
\* any, and finally runs
aexit(stop) ==
    /\ client.pc = "closing"
    /\ client' = Finally(client, client.pending, stop)
    /\ UNCHANGED <<storeVars, pipeVars>>

\* ---------------------------------------------------------------- DataFrame
\* A DataFrame is [columns, rows]: the column labels in order, and the rows in
\* order, each row a function from the labels to values.  A label is the triple
\* <<prefix, base, antenna>>: <<"raw", "rssi", 2>> is 'rssi_antenna2',
\* <<"avg", "rc", 1>> is 'avg_rc_antenna1', <<"meta", "TagID", 0>> is 'TagID'.
TagIDCol == <<"meta", "TagID", 0>>
ReadCol == <<"meta", "read", 0>>
TrueXCol == <<"meta", "true_x", 0>>
TrueYCol == <<"meta", "true_y", 0>>
MetaCols == <<TagIDCol, ReadCol, TrueXCol, TrueYCol>>

RssiCol(a) == <<"raw", "rssi", a>>
RcCol(a) == <<"raw", "rc", a>>
\* f'{prefix}_{c}' for a base column c
StatCol(prefix, c) == <<prefix, c[2], c[3]>>

RECURSIVE ConcatAll(_)
ConcatAll(ss) == IF ss = <<>> THEN <<>> ELSE Head(ss) \o ConcatAll(Tail(ss))

RECURSIVE FnSum(_)
FnSum(f) ==
    IF DOMAIN f = {} THEN 0
    ELSE LET x == CHOOSE x \in DOMAIN f : TRUE
         IN  f[x] + FnSum([y \in DOMAIN f \ {x} |-> f[y]])

\* pivot_table(index=[TagID, read_time], columns=antenna_id, values=field),
\* aggfunc 'mean': index and columns sorted, one cell per (index, column), the
\* mean of the group's values, NaN for an empty group.  val[r] is the field.
PivotTable(recs, val) ==
    LET tagsPresent == SortedSeq({r.tag_id : r \in recs})
        timesOf(t) == SortedSeq({r.read_time : r \in {q \in recs : q.tag_id = t}})
        index == ConcatAll([i \in DOMAIN tagsPresent |->
                    [j \in DOMAIN timesOf(tagsPresent[i]) |->
                        <<tagsPresent[i], timesOf(tagsPresent[i])[j]>>]])
        columns == SortedSeq({r.antenna_id : r \in recs})
        group(k, a) == {r \in recs : r.tag_id = k[1] /\ r.read_time = k[2]
                                      /\ r.antenna_id = a}
        cell(k, a) == IF group(k, a) = {} THEN NaN
                      ELSE Rat(FnSum([r \in group(k, a) |-> val[r]]),
                               Cardinality(group(k, a)))
    IN  [index |-> index, columns |-> columns,
         cell |-> [k \in Range(index), a \in Range(columns) |-> cell(k, a)]]

\* load_data_from_db over the tables (record, tag)
LoadDataFromDb(recs, tags) ==
    LET df_rssi == PivotTable(recs, [r \in recs |-> r.rssi])
        df_rc == PivotTable(recs, [r \in recs |-> r.rc])
        rssi_names == [i \in DOMAIN df_rssi.columns |-> RssiCol(df_rssi.columns[i])]
        rc_names == [i \in DOMAIN df_rc.columns |-> RcCol(df_rc.columns[i])]
        \* concat(axis=1).reset_index(), rename read_time -> read, merge how=left
        columns == <<TagIDCol, ReadCol>> \o rssi_names \o rc_names
                      \o <<TrueXCol, TrueYCol>>
        value(k, c) ==
            CASE c = TagIDCol -> k[1]
              [] c = ReadCol -> k[2]
              [] c = TrueXCol -> IF k[1] \in DOMAIN tags THEN tags[k[1]].true_x ELSE NaN
              [] c = TrueYCol -> IF k[1] \in DOMAIN tags THEN tags[k[1]].true_y ELSE NaN
              [] c[2] = "rssi" -> df_rssi.cell[k, c[3]]
              [] OTHER -> df_rc.cell[k, c[3]]
    IN  [columns |-> columns,
         rows |-> [i \in DOMAIN df_rssi.index |->
                     [c \in Range(columns) |-> value(df_rssi.index[i], c)]]]

\* load_reference_tags: SELECT tag_id FROM tag WHERE type = 'ref'
LoadReferenceTags(tags) == {t \in DOMAIN tags : tags[t].type = "ref"}

\* The exceptions load_data_from_db may end with ("none": it returns).  With
\* no row in table record the pivot takes the mean of an empty, untyped column:
\* pandas returns an empty table or raises a TypeError, by release.
LoadOutcomes(recs) == IF recs = {} THEN {"none", "TypeError"} ELSE {"none"}

\* load_data_from_db, first SELECT: the rows of table record.  The statement
\* runs in autocommit mode, so the tables are free for writers until the
\* second SELECT.
read_records ==
    /\ pc = "store"
    /\ pc' = "reading"
    /\ df_records' = record
    /\ UNCHANGED <<storeVars, df_tags, dbase, feats, first_window_size, window_size, num_features,
                   models, error, results, client>>

\* load_data_from_db, second SELECT and the rest: the rows of table tag as
\* they are now, pivoted and merged with the records read before
load_data_from_db ==
    /\ pc = "reading"
    /\ \E ex \in LoadOutcomes(df_records) :
          /\ error' = ex
          /\ pc' = IF ex = "none" THEN "loaded" ELSE "failed"
          /\ dbase' = IF ex = "none" THEN LoadDataFromDb(df_records, tag) ELSE EmptyFrame
    /\ df_tags' = [i \in DOMAIN tag |-> [true_x |-> tag[i].true_x, true_y |-> tag[i].true_y]]
    /\ UNCHANGED <<storeVars, df_records, feats, first_window_size, window_size,
                   num_features, models, results, client>>

\* ------------------------------------------------------------ numpy pieces
\* np.around(p/q, 4), q > 0: the nearest multiple of 1e-4, halves to even,
\* as a count of 1e-4 units
RoundHalfEven(p, q) ==
    LET f == p \div q
        r == p - f * q
    IN  IF 2 * r < q THEN f
        ELSE IF 2 * r > q THEN f + 1
        ELSE IF f % 2 = 0 THEN f ELSE f + 1

Around4(p, q) == [set |-> TRUE, num |-> RoundHalfEven(10000 * p, q), den |-> 10000]

IntSqrt(d) == CHOOSE r \in 0..d : r * r <= d /\ (r + 1) * (r + 1) > d

\* floor(400000000 * d / x), without leaving 32 bits
FloorScaledDiv(d, x) == (400000000 \div x) * d + ((400000000 % x) * d) \div x

RECURSIVE SqrtSearch(_, _, _)
SqrtSearch(d, lo, hi) ==
    IF lo = hi THEN lo
    ELSE LET mid == (lo + hi + 1) \div 2
         IN  IF mid <= FloorScaledDiv(d, mid)
               THEN SqrtSearch(d, mid, hi)
               ELSE SqrtSearch(d, lo, mid - 1)

\* floor(20000 * sqrt(d))
ScaledSqrt(d) ==
    IF d = 0 THEN 0
    ELSE SqrtSearch(d, 20000 * IntSqrt(d), 20000 * (IntSqrt(d) + 1) - 1)

\* np.around(sqrt(d)/m, 4) as a count of 1e-4 units
RoundSqrt(d, m) ==
    LET x == ScaledSqrt(d)
        f == (x + m) \div (2 * m)
        exact == d = 0 \/ (FloorScaledDiv(d, x) = x /\ ((400000000 % x) * d) % x = 0)
        tie == exact /\ (x + m) % (2 * m) = 0
    IN  IF tie /\ f % 2 = 1 THEN f - 1 ELSE f

\* the values of a column over a common denominator
CommonDen(w) == SeqProd([i \in DOMAIN w |-> w[i].den])
Numerators(w) == [i \in DOMAIN w |-> w[i].num * (CommonDen(w) \div w[i].den)]

HasNaN(w) == \E i \in DOMAIN w : ~w[i].set

\* np.around(np.mean(w), 4), w one column of the window: NaN if any entry is NaN
NpMean(w) ==
    IF HasNaN(w) THEN NaN
    ELSE Around4(SeqSum(Numerators(w)), Len(w) * CommonDen(w))

NpMin(w) ==
    IF HasNaN(w) THEN NaN
    ELSE Around4(SetMin(Range(Numerators(w))), CommonDen(w))

NpMax(w) ==
    IF HasNaN(w) THEN NaN
    ELSE Around4(SetMax(Range(Numerators(w))), CommonDen(w))

\* np.around(np.std(w), 4): population standard deviation
NpStd(w) ==
    IF HasNaN(w) THEN NaN
    ELSE LET n == Len(w)
             N == Numerators(w)
             sq == SeqSum([i \in DOMAIN N |-> N[i] * N[i]])
             d == n * sq - SeqSum(N) * SeqSum(N)
         IN  [set |-> TRUE, num |-> RoundSqrt(d, n * CommonDen(w)), den |-> 10000]

Prefixes == <<"avg", "min", "max", "stddev">>

NpStat(prefix, w) ==
    CASE prefix = "avg" -> NpMean(w)
      [] prefix = "min" -> NpMin(w)
      [] prefix = "max" -> NpMax(w)
      [] OTHER -> NpStd(w)

\* ------------------------------------------------- sliding_window_features
\* num_ant: the columns whose name starts with 'rssi_antenna'
NumAnt(df) == Len(SelectSeq(df.columns, LAMBDA c : c[1] = "raw" /\ c[2] = "rssi"))

\* rssi_cols + rc_cols as the extractor names them: antennas 1..num_ant
BaseCols(df) ==
    [i \in 1..NumAnt(df) |-> RssiCol(i)] \o [i \in 1..NumAnt(df) |-> RcCol(i)]

\* np.unique(dbase['TagID'])
UniqueTags(df) == SortedSeq({df.rows[i][TagIDCol] : i \in DOMAIN df.rows})

\* dbase[dbase['TagID'] == tag].reset_index(drop=True)
DfTag(df, t) == SelectSeq(df.rows, LAMBDA row : row[TagIDCol] = t)

\* df_tag.loc[beg:end, cols].values with 0-based labels, both ends included
LocWindow(rows, beg, end) == SubSeq(rows, beg + 1, end + 1)

\* the first window: rows 0..first_window_size-1, or all rows if fewer
FirstWindow(rows, W0) ==
    IF Len(rows) >= W0 THEN LocWindow(rows, 0, W0 - 1)
    ELSE LocWindow(rows, 0, Len(rows) - 1)

\* the window begun one row early
WindowBegEarly(i, W) == IF i - W > 0 THEN i - W ELSE 0

\* beg = max(0, i - window_size + 1)
WindowBeg(i, W) == IF i - W + 1 > 0 THEN i - W + 1 ELSE 0

\* stats[prefix] over a window: one value per base column
WindowStats(window, base) ==
    [p \in Range(Prefixes) |->
        [c \in Range(base) |-> NpStat(p, [j \in DOMAIN window |-> window[j][c]])]]

\* a warm-up row given its own expanding window [0, i]
RowWindowExpanding(rows, i, W0, W) ==
    IF i < W0 THEN LocWindow(rows, 0, i)
    ELSE LocWindow(rows, IF i - W + 1 > 0 THEN i - W + 1 ELSE 0, i)

\* the window whose statistics row i (0-based) of a tag receives
RowWindow(rows, i, W0, W) ==
    IF i < W0 THEN FirstWindow(rows, W0)
    ELSE LocWindow(rows, WindowBeg(i, W), i)

\* only the rows of the second loop kept
TagFeaturesSlidingOnly(rows, base, cols, W0, W) ==
    LET kept == SubSeq(rows, (IF W0 < Len(rows) THEN W0 ELSE Len(rows)) + 1, Len(rows))
    IN  [j \in DOMAIN kept |->
            [c \in Range(cols) |-> IF c \in DOMAIN kept[j] THEN kept[j][c] ELSE NaN]]

\* df_tag after both loops: every row with its statistic columns
TagFeatures(rows, base, cols, W0, W) ==
    [j \in DOMAIN rows |->
        LET stats == WindowStats(RowWindow(rows, j - 1, W0, W), base)
        IN  [c \in Range(cols) |->
                IF c \in DOMAIN rows[j] THEN rows[j][c]
                ELSE stats[c[1]][<<"raw", c[2], c[3]>>]]]

\* the key columns left where they are
MoveToEndNone(cols, keys) == cols

\* vals = newdbase.pop(col); newdbase[col] = vals, for each key column present
RECURSIVE MoveToEnd(_, _)
MoveToEnd(cols, keys) ==
    IF keys = <<>> THEN cols
    ELSE MoveToEnd(
            IF Head(keys) \in Range(cols)
              THEN SelectSeq(cols, LAMBDA c : c # Head(keys)) \o <<Head(keys)>>
              ELSE cols,
            Tail(keys))

RowBefore(a, b) ==
    \/ a[ReadCol] < b[ReadCol]
    \/ a[ReadCol] = b[ReadCol] /\ a[TagIDCol] < b[TagIDCol]

RECURSIVE InsertSorted(_, _)
InsertSorted(row, sorted) ==
    IF sorted = <<>> THEN <<row>>
    ELSE IF RowBefore(row, Head(sorted)) THEN <<row>> \o sorted
    ELSE <<Head(sorted)>> \o InsertSorted(row, Tail(sorted))

\* the rows left in the order the tags were processed
SortValuesNone(rows) == rows

\* sort_values(by=['read', 'TagID']).reset_index(drop=True)
RECURSIVE SortValues(_)
SortValues(rows) ==
    IF rows = <<>> THEN <<>>
    ELSE InsertSorted(rows[Len(rows)], SortValues(SubSeq(rows, 1, Len(rows) - 1)))

\* a window of the tag holds no row: the first window when first_window_size
\* <= 0, the window of a row i >= first_window_size when window_size <= 0.
\* np.min over its zero rows raises a ValueError.
EmptyWindow(rows, W0, W) ==
    \/ FirstWindow(rows, W0) = <<>>
    \/ \E i \in W0..(Len(rows) - 1) : LocWindow(rows, WindowBeg(i, W), i) = <<>>

\* sliding_window_features(dbase, first_window_size, window_size): [error, frame]
SlidingWindowFeatures(df, W0, W) ==
    LET tags == UniqueTags(df)
        base == BaseCols(df)
        statCols == ConcatAll([p \in DOMAIN Prefixes |->
                       [i \in DOMAIN base |-> StatCol(Prefixes[p], base[i])]])
        cols == IF tags = <<>> THEN df.columns ELSE df.columns \o statCols
        perTag == [k \in DOMAIN tags |-> TagFeatures(DfTag(df, tags[k]), base, cols, W0, W)]
    IN  IF tags # <<>> /\ ~(Range(base) \subseteq Range(df.columns))
          THEN [error |-> "KeyError", frame |-> EmptyFrame]
          ELSE IF \E k \in DOMAIN tags : EmptyWindow(DfTag(df, tags[k]), W0, W)
          THEN [error |-> "ValueError", frame |-> EmptyFrame]
          ELSE [error |-> "none",
                frame |-> [columns |-> MoveToEnd(cols, MetaCols),
                           rows |-> SortValues(ConcatAll(perTag))]]

sliding_window_features(W0, W) ==
    /\ pc = "loaded"
    /\ first_window_size' = W0
    /\ window_size' = W
    /\ LET res == SlidingWindowFeatures(dbase, W0, W)
       IN  /\ error' = res.error
           /\ feats' = res.frame
           /\ pc' = IF res.error = "none" THEN "features" ELSE "failed"
    /\ UNCHANGED <<storeVars, df_records, df_tags, dbase, num_features, models, results, client>>

\* ---------------------------------------------------------- train_rf_models
\* landmarc = feature_df[feature_df['TagID'].isin(reference_tags)]
Landmarc(df, reference_tags) ==
    SelectSeq(df.rows, LAMBDA row : row[TagIDCol] \in reference_tags)

\* the labels of feature_df.iloc[:, :num_features], num_features >= 0
IlocPrefix(cols, nf) == SubSeq(cols, 1, IF nf < Len(cols) THEN nf ELSE Len(cols))

\* The dtype of a coordinate column read from table tag: with a NULL in every
\* row pandas keeps a column of None objects; with a number in some row it is
\* a float column, NaN where NULL.  The left merge carries the dtype into the
\* frame.
ObjectColumn(tags, field) == \A i \in DOMAIN tags : ~tags[i][field].set

\* RandomForestRegressor.fit(X, y) of scikit-learn: the exceptions it may end
\* with ("none": it returns).  Zero samples or zero features, a NaN label: a
\* ValueError.  A label column of None objects (objectLabels) passes the NaN
\* check of y, which compares each object with itself, and is then converted
\* to NaN: fit returns, or raises where the release checks again.  A Timestamp
\* among the inputs: a TypeError (an id, being a text of digits, converts to a
\* number).  A NaN among the inputs: a ValueError before release 1.4, accepted
\* since.
FitOutcomes(rows, xcols, ycol, objectLabels) ==
    IF rows = <<>> \/ xcols = <<>> THEN {"ValueError"}
    ELSE IF ReadCol \in Range(xcols) THEN {"TypeError"}
    ELSE IF \E i \in DOMAIN rows : ~rows[i][ycol].set
           THEN IF objectLabels THEN {"none", "ValueError"} ELSE {"ValueError"}
    ELSE IF \E i \in DOMAIN rows : \E c \in Range(xcols) \ {TagIDCol} : ~rows[i][c].set
           THEN {"none", "ValueError"}
    ELSE {"none"}

\* the num_features the callers pass with k antennas: num_base * num_stats = 8k
\* (test_sliding_and_models), 10k (__main__: 40 with 4 antennas), and the first
\* count past the 10k feature columns
FeatureCounts(df) == {8 * NumAnt(df), 10 * NumAnt(df), 10 * NumAnt(df) + 1}

\* train_rf_models(feats, load_reference_tags(), nf); regX is fitted first, regY
\* only if regX.fit returned
train_rf_models(nf) ==
    /\ pc = "features"
    /\ num_features' = nf
    /\ LET landmarc == Landmarc(feats, LoadReferenceTags(tag))
           X == IlocPrefix(feats.columns, nf)
       IN  \E ex \in FitOutcomes(landmarc, X, TrueXCol, ObjectColumn(df_tags, "true_x")) :
           \E ey \in FitOutcomes(landmarc, X, TrueYCol, ObjectColumn(df_tags, "true_y")) :
              /\ error' = IF ex # "none" THEN ex ELSE ey
              /\ models' = [fit_called |-> TRUE, X_columns |-> X,
                            n_samples |-> Len(landmarc),
                            returned |-> (ex = "none" /\ ey = "none"),
                            labels_x |-> [i \in DOMAIN landmarc |-> landmarc[i][TrueXCol]],
                            labels_y |-> [i \in DOMAIN landmarc |-> landmarc[i][TrueYCol]]]
              /\ pc' = IF ex = "none" /\ ey = "none" THEN "trained" ELSE "failed"
    /\ UNCHANGED <<storeVars, df_records, df_tags, dbase, feats, first_window_size, window_size,
                   results, client>>

\* -------------------------------------------------------- evaluate_position
\* the labels a regressor was fitted on: landmarc[ycol].values
TrainLabels(ycol) == IF ycol = TrueXCol THEN models.labels_x ELSE models.labels_y

\* some input of the rows, among the columns xcols, is NaN
XHasNaN(rows, xcols) ==
    \E i \in DOMAIN rows : \E c \in Range(xcols) \ {TagIDCol} : ~rows[i][c].set

\* a <= b for two numbers that are set
Leq(a, b) == a.num * b.den <= b.num * a.den

\* |a - b|
AbsDiff(a, b) == Rat(Abs(a.num * b.den - b.num * a.den), a.den * b.den)

\* RandomForestRegressor.predict for one row: the mean over the 1000 trees of
\* a leaf value, each the mean of some of the labels.  Which mean depends on
\* the bootstrap draws of the trees, so a prediction is kept as the interval
\* [lo, hi] it lies in, from the least to the greatest label: the label itself
\* when all labels are one value, NaN for a forest fitted on NaN labels.
PredictRange(labels) ==
    IF HasNaN(labels) THEN [lo |-> NaN, hi |-> NaN]
    ELSE [lo |-> Rat(SetMin(Range(Numerators(labels))), CommonDen(labels)),
          hi |-> Rat(SetMax(Range(Numerators(labels))), CommonDen(labels))]

\* what predict does with a NaN input: accepted if fit accepted one, otherwise
\* accepted or a ValueError, by release
PredictOutcomes ==
    IF XHasNaN(Landmarc(feats, LoadReferenceTags(tag)), models.X_columns)
      THEN {"none"} ELSE {"none", "ValueError"}

\* the least and the greatest |a - v| for v in the interval p
LeastError(a, p) ==
    IF Leq(p.lo, a) /\ Leq(a, p.hi) THEN Int2Num(0)
    ELSE IF Leq(AbsDiff(a, p.lo), AbsDiff(a, p.hi)) THEN AbsDiff(a, p.lo)
    ELSE AbsDiff(a, p.hi)
GreatestError(a, p) ==
    IF Leq(AbsDiff(a, p.lo), AbsDiff(a, p.hi)) THEN AbsDiff(a, p.hi) ELSE AbsDiff(a, p.lo)

\* round(mean of the errors ws, 4)
RoundedMean(ws) == Around4(SeqSum(Numerators(ws)), Len(ws) * CommonDen(ws))

\* evaluate_position(feature_df, regX, regY, num_features), onNaN what predict
\* does with a NaN input: [error, returned, columns, rows, predictions].  The
\* tags are taken in np.unique order; the first tag with a NaN among its true
\* coordinates or its predictions ends the call in mean_absolute_error with a
\* ValueError.  A predicted coordinate and an error are intervals [lo, hi].
EvaluatePosition(df, xcols, onNaN) ==
    LET tags == UniqueTags(df)
        px == PredictRange(TrainLabels(TrueXCol))
        py == PredictRange(TrainLabels(TrueYCol))
        idx(t) == SelectSeq([i \in DOMAIN df.rows |-> i],
                            LAMBDA i : df.rows[i][TagIDCol] = t)
        col(t, c) == [j \in DOMAIN idx(t) |-> df.rows[idx(t)[j]][c]]
        failPredict(t) == onNaN # "none" /\ XHasNaN(DfTag(df, t), xcols)
        failMae(t) == \/ HasNaN(col(t, TrueXCol)) \/ ~px.lo.set
                      \/ HasNaN(col(t, TrueYCol)) \/ ~py.lo.set
        failing == {k \in DOMAIN tags : failPredict(tags[k]) \/ failMae(tags[k])}
        first == IF failing = {} THEN 0 ELSE SetMin(failing)
        predicted == {k \in DOMAIN tags :
                        first = 0 \/ k < first \/ (k = first /\ ~failPredict(tags[k]))}
        mae(t) == LET n == Len(idx(t))
                      lx == [j \in 1..n |-> LeastError(col(t, TrueXCol)[j], px)]
                      gx == [j \in 1..n |-> GreatestError(col(t, TrueXCol)[j], px)]
                      ly == [j \in 1..n |-> LeastError(col(t, TrueYCol)[j], py)]
                      gy == [j \in 1..n |-> GreatestError(col(t, TrueYCol)[j], py)]
                  IN  [TagID |-> t,
                       MAE_x |-> [lo |-> RoundedMean(lx), hi |-> RoundedMean(gx)],
                       MAE_y |-> [lo |-> RoundedMean(ly), hi |-> RoundedMean(gy)],
                       MAE_avg |-> [lo |-> RoundedMean(lx \o ly),
                                    hi |-> RoundedMean(gx \o gy)]]
    IN  [error |-> IF first = 0 THEN "none" ELSE "ValueError",
         returned |-> first = 0,
         columns |-> IF first = 0 /\ tags # <<>>
                       THEN <<"TagID", "MAE_x", "MAE_y", "MAE_avg">> ELSE <<>>,
         rows |-> IF first = 0 THEN [k \in DOMAIN tags |-> mae(tags[k])] ELSE <<>>,
         predictions |->
            ConcatAll([k \in DOMAIN tags |->
                IF k \in predicted
                  THEN [j \in DOMAIN idx(tags[k]) |->
                          [TagID |-> tags[k], read |-> col(tags[k], ReadCol)[j],
                           x |-> px, y |-> py]]
                  ELSE <<>>])]

\* evaluate_position(feats, regX, regY, num_features) on the models
\* train_rf_models returned; nothing is written to the store
evaluate_position ==
    /\ pc = "trained"
    /\ \E onNaN \in PredictOutcomes :
          LET res == EvaluatePosition(feats, models.X_columns, onNaN)
          IN  /\ error' = res.error
              /\ results' = [called |-> TRUE, returned |-> res.returned,
                             columns |-> res.columns, rows |-> res.rows,
                             predictions |-> res.predictions]
              /\ pc' = IF res.returned THEN "evaluated" ELSE "failed"
    /\ UNCHANGED <<storeVars, df_records, df_tags, dbase, feats, first_window_size, window_size,
                   num_features, models, client>>

\* ------------------------------------------------------------ specifications
InitStore ==
    /\ antenna = {}
    /\ tag = <<>>
    /\ record = {}
    /\ last_id = 0

InitPipe ==
    /\ pc = "store"
    /\ df_records = {}
    /\ df_tags = <<>>
    /\ dbase = EmptyFrame
    /\ feats = EmptyFrame
    /\ first_window_size = 0
    /\ window_size = 0
    /\ num_features = 0
    /\ models = NoModels
    /\ error = "none"
    /\ results = NoResults
    /\ client = IdleClient

Init == InitStore /\ InitPipe

\* the uploaded tag files tried while the loader runs: those of UploadRows
\* whose rows all carry the same type and coordinates
LoaderUploads == {f \in UploadRows : \A i \in DOMAIN f : f[i].tag = f[1].tag}

\* every writer of the store, free to commit before, between and after the two
\* reads of load_data_from_db
Next ==
    \/ \E a \in AntennaIds : insert_antenna(a)
    \/ \E id \in TagIds, t \in TagInputs : insert_tag(id, t)
    \/ \E id \in TagIds, t \in TagInputs : update_tag(id, t)
    \/ \E r \in RecordInputs(StoreTimes) : insert_record(r)
    \/ \E batch \in Batches : insert_records(batch)
    \/ \E rows \in AntennaRows : upload_antennas(rows)
    \/ \E rows \in LoaderUploads : upload_tags(rows)
    \/ reset_all
    \/ read_records
    \/ load_data_from_db

Spec == Init /\ [][Next]_vars

\* every operation on the store, in any order
StoreNext ==
    \/ \E a \in AntennaIds : insert_antenna(a)
    \/ \E id \in TagIds, t \in TagObjects : insert_tag(id, t)
    \/ \E id \in TagIds, t \in TagObjects : update_tag(id, t)
    \/ \E r \in RecordInputs(StoreTimes) : insert_record(r)
    \/ \E batch \in Batches : insert_records(batch)
    \/ \E rows \in AntennaRows : upload_antennas(rows)
    \/ \E rows \in UploadRows : upload_tags(rows)
    \/ reset_all

SpecStore == Init /\ [][StoreNext]_vars

\* one run of collect_and_store_records on a store that holds any of the
\* antennas and tags and at most one earlier reading
CollectTagRow == [type |-> "tar", true_x |-> NaN, true_y |-> NaN, pred_x |-> NaN, pred_y |-> NaN]

InitCollect ==
    /\ antenna \in SUBSET AntennaIds
    /\ tag \in {[i \in ids |-> CollectTagRow] : ids \in SUBSET TagIds}
    /\ record \in {{}} \cup
          {{[record_id |-> 1, tag_id |-> t, antenna_id |-> a, rc |-> 1, rssi |-> -3,
             read_time |-> 1]} : t \in DOMAIN tag, a \in antenna}
    /\ last_id = Cardinality(record)
    /\ InitPipe

CollectNext ==
    \/ \E start \in ServiceOutcomes : start_reading(start)
    \/ \E ok \in BOOLEAN, stop \in ServiceOutcomes : connect(ok, stop)
    \/ \E msg \in Messages, stop \in ServiceOutcomes : readings_stream(msg, stop)
    \/ \E exc \in {"none", "ConnectionClosedError"} : stream_end(exc)
    \/ \E stop \in ServiceOutcomes : aexit(stop)

SpecCollect == InitCollect /\ [][CollectNext]_vars

\* A snapshot of the store for one pipeline run: every antenna and tag present,
\* up to MaxReadings distinct readings, numbered in key order.
RECURSIVE SetsUpTo(_, _)
SetsUpTo(S, n) ==
    IF n = 0 THEN {{}}
    ELSE LET P == SetsUpTo(S, n - 1)
         IN  P \cup {s \cup {x} : s \in P, x \in S}

ReadingKey(r) ==
    (((r.tag_id * 10 + r.antenna_id) * 10 + r.read_time) * 100 + (r.rssi + 50)) * 10 + r.rc

Numbered(rs) ==
    {[record_id |-> Cardinality({q \in rs : ReadingKey(q) <= ReadingKey(r)}),
      tag_id |-> r.tag_id, antenna_id |-> r.antenna_id, rc |-> r.rc, rssi |-> r.rssi,
      read_time |-> r.read_time] : r \in rs}

\* tag 1 a reference tag at (0, 0); tag 2 a target tag of unknown position
SnapshotTagTables ==
    {[i \in TagIds |->
        [type |-> IF i = 1 THEN "ref" ELSE "tar",
         true_x |-> IF i = 1 THEN Int2Num(0) ELSE NaN,
         true_y |-> IF i = 1 THEN Int2Num(0) ELSE NaN,
         pred_x |-> NaN, pred_y |-> NaN]]}

InitSnapshot ==
    /\ antenna = AntennaIds
    /\ tag \in SnapshotTagTables
    /\ \E rs \in SetsUpTo(RecordInputs(Times), MaxReadings) :
          /\ record = Numbered(rs)
          /\ last_id = Cardinality(rs)
    /\ InitPipe

PipelineNext ==
    \/ read_records
    \/ load_data_from_db
    \/ \E W0 \in 1..MaxWindow, W \in 1..MaxWindow : sliding_window_features(W0, W)
    \/ \E nf \in FeatureCounts(feats) : train_rf_models(nf)

SpecPipeline == InitSnapshot /\ [][PipelineNext]_vars

\* One run of the whole pipeline (load, extract, train, evaluate) over a small
\* snapshot, for every assignment of roles and known / unknown true
\* coordinates to the two tags.  Tag 1, where known, is at (0, 0), tag 2 at
\* (2, 2); every reading is one value pair.
EvalTimes == {1, 2}
EvalWindows == {0, 1, 2}
EvalReadings == {r \in RecordInputs(EvalTimes) : r.rc = 1}
EvalCoord(i) == Int2Num(2 * (i - 1))

EvalTagTables ==
    {[i \in TagIds |->
        [type |-> ty[i],
         true_x |-> IF known[i] THEN EvalCoord(i) ELSE NaN,
         true_y |-> IF known[i] THEN EvalCoord(i) ELSE NaN,
         pred_x |-> NaN, pred_y |-> NaN]] :
        ty \in [TagIds -> {"ref", "tar"}], known \in [TagIds -> BOOLEAN]}

InitEvaluation ==
    /\ antenna = AntennaIds
    /\ tag \in EvalTagTables
    /\ \E rs \in SetsUpTo(EvalReadings, MaxEvalReadings) :
          /\ record = Numbered(rs)
          /\ last_id = Cardinality(rs)
    /\ InitPipe

EvaluationNext ==
    \/ read_records
    \/ load_data_from_db
    \/ \E W0 \in EvalWindows, W \in EvalWindows : sliding_window_features(W0, W)
    \/ \E nf \in FeatureCounts(feats) : train_rf_models(nf)
    \/ evaluate_position

SpecEvaluation == InitEvaluation /\ [][EvaluationNext]_vars

\* ------------------------------------------------------------------ claims
\* sliding_window_features has returned a frame for the current dbase
FeatsReady ==
    pc \in {"features", "trained", "evaluated"} \/ (pc = "failed" /\ models.fit_called)

\* sliding_window_features has been called on the current dbase
ExtractorCalled == first_window_size > 0

TagsIn(df) == {df.rows[i][TagIDCol] : i \in DOMAIN df.rows}
FeatRowsOf(t) == SelectSeq(feats.rows, LAMBDA row : row[TagIDCol] = t)
BaseRowsOf(t) == SelectSeq(dbase.rows, LAMBDA row : row[TagIDCol] = t)
\* the signal / read-count columns the assembler produced, in its order
RawColsOf(df) == SelectSeq(df.columns, LAMBDA c : c[1] = "raw")
StatColsOf(df) == SelectSeq(df.columns, LAMBDA c : c[1] \notin {"raw", "meta"})
Column(rows, c) == [j \in DOMAIN rows |-> rows[j][c]]
Min2(a, b) == IF a < b THEN a ELSE b
Max2(a, b) == IF a > b THEN a ELSE b
SetEntries(w) == SelectSeq(w, LAMBDA v : v.set)

\* v is the statistic `prefix` of the set, non-empty column w, exactly
IsExactStat(prefix, v, w) ==
    LET n == Len(w)
        N == Numerators(w)
        den == CommonDen(w)
        d == n * SeqSum([i \in DOMAIN N |-> N[i] * N[i]]) - SeqSum(N) * SeqSum(N)
    IN  /\ v.set
        /\ CASE prefix = "avg" -> v.num * n * den = SeqSum(N) * v.den
             [] prefix = "min" -> v.num * den = SetMin(Range(N)) * v.den
             [] prefix = "max" -> v.num * den = SetMax(Range(N)) * v.den
             [] OTHER -> /\ IntSqrt(d) * IntSqrt(d) = d
                         /\ v.num * n * den = IntSqrt(d) * v.den

\* v is a 4-decimal number nearest to the statistic `prefix` of the set,
\* non-empty column w
IsRounded4Stat(prefix, v, w) ==
    LET n == Len(w)
        N == Numerators(w)
        den == CommonDen(w)
        d == n * SeqSum([i \in DOMAIN N |-> N[i] * N[i]]) - SeqSum(N) * SeqSum(N)
    IN  /\ v.set
        /\ v.den = 10000
        /\ CASE prefix = "avg" -> 2 * Abs(v.num * n * den - 10000 * SeqSum(N)) <= n * den
             [] prefix = "min" -> 2 * Abs(v.num * den - 10000 * SetMin(Range(N))) <= den
             [] prefix = "max" -> 2 * Abs(v.num * den - 10000 * SetMax(Range(N))) <= den
             [] OTHER -> /\ (2 * v.num - 1) * n * den <= ScaledSqrt(d)
                         /\ ScaledSqrt(d) <= (2 * v.num + 1) * n * den

\* rows [max(0, i - W + 1), i] of a tag, i = j - 1 the 0-based index of row j
TrailingRows(rows, j) == SubSeq(rows, Max2(1, j - window_size + 1), j)
\* rows [0, min(W0, n) - 1] of a tag
WarmupRows(rows) == SubSeq(rows, 1, Min2(first_window_size, Len(rows)))
\* the window the spec gives row j: the warm-up block or the trailing window
SpecWindow(rows, j) ==
    IF j - 1 < first_window_size THEN WarmupRows(rows) ELSE TrailingRows(rows, j)

\* C1 (as stated): for every tag and every row i >= first_window_size, each of
\* the four statistics of a base column equals exactly that statistic of the
\* column over the tag's rows [max(0, i - window_size + 1), i]; stated here for
\* the windows in which the column is set in every row.
C1_SlidingStatsExact ==
    FeatsReady =>
        \A t \in TagsIn(feats) :
            \A j \in DOMAIN FeatRowsOf(t) :
                (j - 1 >= first_window_size /\ j <= Len(BaseRowsOf(t))) =>
                    \A c \in Range(RawColsOf(dbase)) :
                        LET w == Column(TrailingRows(BaseRowsOf(t), j), c)
                        IN  ~HasNaN(w) =>
                              \A p \in Range(Prefixes) :
                                 IsExactStat(p, FeatRowsOf(t)[j][StatCol(p, c)], w)

\* C1 (amended): for every tag and every row i >= first_window_size, each of the
\* four statistics of a base column is that statistic of the column over the
\* tag's rows [max(0, i - window_size + 1), i] and no others, rounded to 4
\* decimal places, for a column set in every row of the window.
C1_SlidingStatsRounded ==
    FeatsReady =>
        \A t \in TagsIn(feats) :
            \A j \in DOMAIN FeatRowsOf(t) :
                (j - 1 >= first_window_size /\ j <= Len(BaseRowsOf(t))) =>
                    \A c \in Range(RawColsOf(dbase)) :
                        LET w == Column(TrailingRows(BaseRowsOf(t), j), c)
                        IN  ~HasNaN(w) =>
                              \A p \in Range(Prefixes) :
                                 IsRounded4Stat(p, FeatRowsOf(t)[j][StatCol(p, c)], w)

\* a tag's third row is in the sliding phase with a window of two rows that has
\* slid past row 0 and holds two different signal values
C1_Witness ==
    /\ FeatsReady
    /\ window_size = 2
    /\ first_window_size <= 2
    /\ \E t \in TagsIn(feats) :
          /\ Len(BaseRowsOf(t)) = 3
          /\ Len(FeatRowsOf(t)) = 3
          /\ BaseRowsOf(t)[2][RssiCol(1)].set
          /\ BaseRowsOf(t)[3][RssiCol(1)].set
          /\ BaseRowsOf(t)[2][RssiCol(1)] # BaseRowsOf(t)[3][RssiCol(1)]
          /\ BaseRowsOf(t)[1][RssiCol(1)] # BaseRowsOf(t)[2][RssiCol(1)]

\* C2: every row i < min(first_window_size, n) of a tag carries one and the same
\* statistic vector, the 4-decimal mean/min/max/stddev over the fixed block of
\* rows [0, min(first_window_size, n) - 1]; when n < first_window_size that is
\* every row of the tag.
C2_WarmupBlockShared ==
    FeatsReady =>
        \A t \in TagsIn(feats) :
            LET fr == FeatRowsOf(t)
                br == BaseRowsOf(t)
                m == Min2(first_window_size, Len(br))
            IN  /\ Len(br) < first_window_size => m = Len(fr)
                /\ \A j \in 1..m :
                     \A c \in Range(RawColsOf(dbase)) : \A p \in Range(Prefixes) :
                        /\ j \in DOMAIN fr
                        /\ fr[j][StatCol(p, c)] = fr[1][StatCol(p, c)]
                        /\ ~HasNaN(Column(WarmupRows(br), c)) =>
                              IsRounded4Stat(p, fr[j][StatCol(p, c)],
                                             Column(WarmupRows(br), c))

\* a warm-up block of at least two rows whose signal values differ
C2_Witness ==
    /\ FeatsReady
    /\ first_window_size >= 2
    /\ \E t \in TagsIn(feats) :
          /\ Len(BaseRowsOf(t)) >= 2
          /\ BaseRowsOf(t)[1][RssiCol(1)].set
          /\ BaseRowsOf(t)[2][RssiCol(1)].set
          /\ BaseRowsOf(t)[1][RssiCol(1)] # BaseRowsOf(t)[2][RssiCol(1)]
          /\ FeatRowsOf(t)[2][StatCol("stddev", RssiCol(1))].num > 0

\* C3 (as stated): for a tag with n >= first_window_size rows, all rows with
\* index < first_window_size have identical feature vectors, the whole vector of
\* raw and statistic entries.
C3_WarmupVectorsIdentical ==
    FeatsReady =>
        \A t \in TagsIn(feats) :
            Len(FeatRowsOf(t)) >= first_window_size =>
                \A j \in 1..first_window_size :
                    \A c \in Range(feats.columns) :
                        c[1] # "meta" => FeatRowsOf(t)[j][c] = FeatRowsOf(t)[1][c]

\* C3 (amended): for a tag with n >= first_window_size rows, all rows with index
\* < first_window_size have identical statistic entries (mean, min, max, stddev
\* of every base column); their raw signal and read-count entries are each
\* row's own.
C3_WarmupStatsIdentical ==
    FeatsReady =>
        \A t \in TagsIn(feats) :
            Len(FeatRowsOf(t)) >= first_window_size =>
                \A j \in 1..first_window_size :
                    /\ \A c \in Range(StatColsOf(feats)) :
                          FeatRowsOf(t)[j][c] = FeatRowsOf(t)[1][c]
                    /\ \A c \in Range(RawColsOf(feats)) :
                          FeatRowsOf(t)[j][c] = BaseRowsOf(t)[j][c]

\* a tag with n >= first_window_size >= 2 rows whose first two rows differ in a
\* raw signal while a statistic of that signal is a non-zero spread
C3_Witness ==
    /\ FeatsReady
    /\ first_window_size >= 2
    /\ \E t \in TagsIn(feats) :
          /\ Len(FeatRowsOf(t)) >= first_window_size
          /\ FeatRowsOf(t)[1][RssiCol(1)].set
          /\ FeatRowsOf(t)[2][RssiCol(1)].set
          /\ FeatRowsOf(t)[1][RssiCol(1)] # FeatRowsOf(t)[2][RssiCol(1)]
          /\ FeatRowsOf(t)[1][StatCol("stddev", RssiCol(1))].num > 0

\* C4: for every tag, the output of sliding_window_features holds as many rows
\* of the tag as its input, for any positive window sizes; no row is created or
\* dropped.
C4_RowCountPerTag ==
    FeatsReady =>
        /\ Len(feats.rows) = Len(dbase.rows)
        /\ \A t \in TagIds : Len(FeatRowsOf(t)) = Len(BaseRowsOf(t))

\* two tags with rows, one of them with more rows than the warm-up block
C4_Witness ==
    /\ FeatsReady
    /\ Len(BaseRowsOf(1)) > first_window_size
    /\ Len(BaseRowsOf(2)) >= 1

\* C5: the rows sliding_window_features returns are ordered by timestamp and,
\* among rows of one timestamp, by tag id.
C5_OutputOrdered ==
    FeatsReady =>
        \A i, j \in DOMAIN feats.rows :
            i < j =>
                \/ feats.rows[i][ReadCol] < feats.rows[j][ReadCol]
                \/ /\ feats.rows[i][ReadCol] = feats.rows[j][ReadCol]
                   /\ feats.rows[i][TagIDCol] < feats.rows[j][TagIDCol]

\* the input, ordered by tag, is not ordered by timestamp, and the output has
\* both tags
C5_Witness ==
    /\ FeatsReady
    /\ TagsIn(feats) = {1, 2}
    /\ \E i, j \in DOMAIN dbase.rows :
          i < j /\ dbase.rows[i][ReadCol] > dbase.rows[j][ReadCol]

\* C6 (as stated): in every window, warm-up block or trailing window, a row
\* whose value for a base column is unset is left out of that column's
\* statistics: the statistic is that of the set values (to 4 decimals), and is
\* unset only when the column is unset in every row of the window.
C6_UnsetExcluded ==
    FeatsReady =>
        \A t \in TagsIn(feats) :
            \A j \in DOMAIN FeatRowsOf(t) :
                \A c \in Range(RawColsOf(dbase)) : \A p \in Range(Prefixes) :
                    LET w == Column(SpecWindow(BaseRowsOf(t), j), c)
                        v == FeatRowsOf(t)[j][StatCol(p, c)]
                    IN  IF SetEntries(w) = <<>> THEN ~v.set
                        ELSE IsRounded4Stat(p, v, SetEntries(w))

\* C7: with k antennas the columns of the output are k raw signals, k raw
\* read-counts, 2k means, 2k minima, 2k maxima, 2k standard deviations, then
\* tag id, timestamp and true coordinates; so the first featureCount columns
\* hold no metadata for any featureCount <= 10k.
C7_ColumnLayout ==
    (FeatsReady /\ feats.rows # <<>>) =>
        LET k == NumAnt(feats)
            cols == feats.columns
        IN  /\ Len(cols) = 10 * k + 4
            /\ \A i \in 1..k : cols[i] = RssiCol(i) /\ cols[k + i] = RcCol(i)
            /\ \A b \in 1..4 : \A i \in 1..k :
                  /\ cols[2 * k * b + i] = StatCol(Prefixes[b], RssiCol(i))
                  /\ cols[2 * k * b + k + i] = StatCol(Prefixes[b], RcCol(i))
            /\ SubSeq(cols, 10 * k + 1, 10 * k + 4) = MetaCols
            /\ \A nf \in 0..(10 * k) : \A i \in 1..nf : cols[i][1] # "meta"

\* an output with rows and two antennas
C7_Witness ==
    /\ FeatsReady
    /\ feats.rows # <<>>
    /\ NumAnt(feats) = 2

\* C8 (as stated): the base columns sliding_window_features reads are exactly
\* the columns load_data_from_db produced, in the same antenna order, and it
\* refers to no column the assembler did not produce.
C8_SameBaseColumns ==
    (ExtractorCalled /\ dbase.rows # <<>>) =>
        /\ BaseCols(dbase) = RawColsOf(dbase)
        /\ error # "KeyError"

\* the frame load_data_from_db returned, against what its two reads returned:
\* one row per distinct (tag, timestamp) of the readings read, ordered by tag
\* and then by timestamp; an antenna with a column has signal and read-count
\* set exactly where it has a reading at the row's timestamp, and an antenna
\* with no column has no reading at all; the coordinates are the tag's in the
\* tag table read, unset when the table holds no such tag
LoadedFrameOfReads ==
    pc = "loaded" =>
        LET rows == dbase.rows
            key(i) == <<rows[i][TagIDCol], rows[i][ReadCol]>>
        IN  /\ {key(i) : i \in DOMAIN rows} = {<<r.tag_id, r.read_time>> : r \in df_records}
            /\ \A i, j \in DOMAIN rows :
                  i < j => \/ key(i)[1] < key(j)[1]
                           \/ key(i)[1] = key(j)[1] /\ key(i)[2] < key(j)[2]
            /\ \A i \in DOMAIN rows : \A a \in AntennaIds :
                  LET has == \E r \in df_records : /\ r.tag_id = key(i)[1]
                                               /\ r.read_time = key(i)[2]
                                               /\ r.antenna_id = a
                  IN  IF RssiCol(a) \in Range(dbase.columns)
                        THEN /\ RcCol(a) \in Range(dbase.columns)
                             /\ rows[i][RssiCol(a)].set = has
                             /\ rows[i][RcCol(a)].set = has
                        ELSE /\ RcCol(a) \notin Range(dbase.columns)
                             /\ \A r \in df_records : r.antenna_id # a
            /\ \A i \in DOMAIN rows :
                  /\ rows[i][TrueXCol] =
                        (IF key(i)[1] \in DOMAIN df_tags THEN df_tags[key(i)[1]].true_x ELSE NaN)
                  /\ rows[i][TrueYCol] =
                        (IF key(i)[1] \in DOMAIN df_tags THEN df_tags[key(i)[1]].true_y ELSE NaN)

\* a frame of two rows with a gap in an antenna column, whose tag was deleted
\* between the two reads
LoadedFrameOfDeletedTag ==
    /\ pc = "loaded"
    /\ Len(dbase.rows) = 2
    /\ \E i \in DOMAIN dbase.rows : \E a \in AntennaIds :
          /\ RssiCol(a) \in Range(dbase.columns)
          /\ ~dbase.rows[i][RssiCol(a)].set
          /\ dbase.rows[i][TagIDCol] \notin DOMAIN df_tags
          /\ ~dbase.rows[i][TrueXCol].set

\* C9 (as stated): whenever load_data_from_db returns, its frame has one row
\* per distinct (tag, timestamp) of the readings, ordered by tag and then by
\* timestamp; in every row every antenna of the system has a signal and a
\* read-count, both set where the antenna has a reading at the row's timestamp
\* and both unset where it has none; the coordinates of a row are its tag's
\* true coordinates, unset for a tag the tag table does not hold.
C9_OneRowPerTagTime ==
    [][(pc = "reading" /\ pc' = "loaded") =>
          LET rows == dbase'.rows
              cols == Range(dbase'.columns)
              key(i) == <<rows[i][TagIDCol], rows[i][ReadCol]>>
          IN  /\ {key(i) : i \in DOMAIN rows} = {<<r.tag_id, r.read_time>> : r \in df_records}
              /\ \A i, j \in DOMAIN rows :
                    i < j => \/ key(i)[1] < key(j)[1]
                             \/ key(i)[1] = key(j)[1] /\ key(i)[2] < key(j)[2]
              /\ \A i \in DOMAIN rows : \A a \in antenna :
                    LET has == \E r \in df_records : /\ r.tag_id = key(i)[1]
                                                 /\ r.read_time = key(i)[2]
                                                 /\ r.antenna_id = a
                    IN  /\ RssiCol(a) \in cols
                        /\ RcCol(a) \in cols
                        /\ rows[i][RssiCol(a)].set = has
                        /\ rows[i][RcCol(a)].set = has
              /\ \A i \in DOMAIN rows :
                    /\ rows[i][TrueXCol] =
                          (IF key(i)[1] \in DOMAIN tag THEN tag[key(i)[1]].true_x ELSE NaN)
                    /\ rows[i][TrueYCol] =
                          (IF key(i)[1] \in DOMAIN tag THEN tag[key(i)[1]].true_y ELSE NaN)]_vars

\* C10 (as stated): train_rf_models fails and returns no model whenever
\* num_features exceeds the 10k feature columns, and never fits a regressor on
\* an input that includes a metadata column.
C10_RejectsExcessFeatureCount ==
    /\ (models.fit_called /\ num_features > 10 * NumAnt(feats)) => ~models.returned
    /\ models.returned =>
          \A i \in DOMAIN models.X_columns : models.X_columns[i][1] # "meta"

\* the rows train_rf_models trains on
ReferenceRows == Landmarc(feats, LoadReferenceTags(tag))

\* C11 (as stated): train_rf_models fails and returns no model when no feature
\* row belongs to a reference tag, or when some reference row has an unset
\* true_x or true_y.
C11_RejectsBadReferenceSet ==
    (models.fit_called /\ num_features \in 1..(10 * NumAnt(feats))) =>
        ((\/ ReferenceRows = <<>>
          \/ \E i \in DOMAIN ReferenceRows :
                ~ReferenceRows[i][TrueXCol].set \/ ~ReferenceRows[i][TrueYCol].set)
            => ~models.returned)

\* C12 (as stated): sliding_window_features called with first_window_size <= 0
\* or window_size <= 0 surfaces an error for every input with rows: it returns
\* a frame only when both sizes are positive.
C12_RejectsNonPositiveWindows ==
    (FeatsReady /\ dbase.rows # <<>>) => (first_window_size > 0 /\ window_size > 0)

\* C13 (as stated): the output of evaluate_position holds a predicted (x, y)
\* for every feature row of every tag, and every target tag with readings has
\* its predicted position written to pred_x, pred_y.
C13_PredictionsDelivered ==
    pc = "evaluated" =>
        /\ \A i \in DOMAIN feats.rows : \E j \in DOMAIN results.rows :
              /\ {"TagID", "read", "x", "y"} \subseteq DOMAIN results.rows[j]
              /\ results.rows[j].TagID = feats.rows[i][TagIDCol]
              /\ results.rows[j].read = feats.rows[i][ReadCol]
        /\ \A t \in TagsIn(feats) :
              tag[t].type = "tar" => tag[t].pred_x.set /\ tag[t].pred_y.set

\* the tags of the feature rows whose true coordinates are known
KnownTags == {t \in TagsIn(feats) : tag[t].true_x.set /\ tag[t].true_y.set}

\* C14 (as stated): evaluate_position, given inputs and labels without gaps,
\* returns an error record (MAE_x, MAE_y, MAE_avg, the last the average of the
\* two) for exactly the tags whose true coordinates are known; a tag with unset
\* true coordinates gets no record and does not make the call fail.
C14_ErrorRecordsForKnownTags ==
    (/\ results.called
     /\ ~XHasNaN(feats.rows, models.X_columns)
     /\ ~HasNaN(TrainLabels(TrueXCol))
     /\ ~HasNaN(TrainLabels(TrueYCol))) =>
        /\ results.returned
        /\ {results.rows[j].TagID : j \in DOMAIN results.rows} = KnownTags
        /\ \A j \in DOMAIN results.rows :
              /\ Abs(2 * results.rows[j].MAE_avg.lo.num
                      - (results.rows[j].MAE_x.lo.num + results.rows[j].MAE_y.lo.num)) <= 2
              /\ Abs(2 * results.rows[j].MAE_avg.hi.num
                      - (results.rows[j].MAE_x.hi.num + results.rows[j].MAE_y.hi.num)) <= 2

\* the feature prefix the regressors see of a row
Prefix(row) == [i \in DOMAIN models.X_columns |-> row[models.X_columns[i]]]
PredictionsOf(t) == SelectSeq(results.predictions, LAMBDA p : p.TagID = t)

\* the regressors were fitted on reference rows that all have one feature
\* prefix, without gaps, and one pair of true coordinates
DegenerateFit ==
    /\ models.returned
    /\ ~XHasNaN(feats.rows, models.X_columns)
    /\ \A i \in DOMAIN ReferenceRows :
          /\ Prefix(ReferenceRows[i]) = Prefix(ReferenceRows[1])
          /\ ReferenceRows[i][TrueXCol].set /\ ReferenceRows[i][TrueYCol].set
          /\ ReferenceRows[i][TrueXCol] = ReferenceRows[1][TrueXCol]
          /\ ReferenceRows[i][TrueYCol] = ReferenceRows[1][TrueYCol]

\* C15 (as stated): after such a fit, evaluating the rows with the same
\* num_features gives MAE_x = 0 and MAE_y = 0 for the reference tag, and every
\* row of a target tag with constant readings receives one and the same
\* predicted point.
C15_DegenerateFitReproducesLabel ==
    (results.called /\ DegenerateFit) =>
        /\ \A t \in TagsIn(feats) :
              tag[t].type = "ref" =>
                 \E j \in DOMAIN results.rows :
                    /\ results.rows[j].TagID = t
                    /\ results.rows[j].MAE_x.lo.num = 0 /\ results.rows[j].MAE_x.hi.num = 0
                    /\ results.rows[j].MAE_y.lo.num = 0 /\ results.rows[j].MAE_y.hi.num = 0
        /\ \A t \in TagsIn(feats) :
              (/\ tag[t].type = "tar"
               /\ \A i \in DOMAIN FeatRowsOf(t) :
                     Prefix(FeatRowsOf(t)[i]) = Prefix(FeatRowsOf(t)[1])) =>
                 /\ Len(PredictionsOf(t)) = Len(FeatRowsOf(t))
                 /\ \A i \in DOMAIN PredictionsOf(t) :
                       /\ PredictionsOf(t)[i].x.lo = PredictionsOf(t)[i].x.hi
                       /\ PredictionsOf(t)[i].y.lo = PredictionsOf(t)[i].y.hi
                       /\ PredictionsOf(t)[i].x = PredictionsOf(t)[1].x
                       /\ PredictionsOf(t)[i].y = PredictionsOf(t)[1].y

\* C16 (as stated): in every reachable store state every tag of type 'ref' has
\* both true coordinates set and both predicted coordinates unset.
C16_ReferenceTagInvariant ==
    \A i \in DOMAIN tag :
        tag[i].type = "ref" =>
            /\ tag[i].true_x.set /\ tag[i].true_y.set
            /\ ~tag[i].pred_x.set /\ ~tag[i].pred_y.set

\* C17 (as stated): only reset_all removes a stored reading; every other step
\* of the store keeps every reading it held.
C17_ReadingsAppendOnly ==
    [][record \subseteq record' \/ (antenna' = {} /\ tag' = <<>> /\ record' = {})]_vars

\* C19: from every reachable store state reset_all succeeds and leaves the
\* antenna, tag and record tables empty.
C19_ResetClearsStore ==
    pc = "store" =>
        /\ ENABLED reset_all
        /\ ResetAll(StoreNow) = [ok |-> TRUE, antenna |-> {}, tag |-> <<>>, record |-> {}]

\* the store is empty after readings were stored: reset_all has run (no other
\* operation removes an antenna)
C19_Witness ==
    /\ antenna = {} /\ tag = <<>> /\ record = {}
    /\ last_id > 0

\* the collector has ended, by returning or by raising
Finished == client.pc \in {"returned", "raised"}

\* the rows the run added, in record_id order
NewRows == record \ client.before
StoredBatch ==
    LET ids == SortedSeq({r.record_id : r \in NewRows})
    IN  [i \in DOMAIN ids |-> CHOOSE r \in NewRows : r.record_id = ids[i]]

\* the received messages that are readings: errorCode 0 and type 'reading'
ReadingsSeen ==
    {i \in DOMAIN client.seen :
        /\ client.seen[i].json
        /\ client.seen[i].errorCode = 0
        /\ client.seen[i].type = "reading"}

\* the i-th stored row is the record of the i-th tag entry, with rc = 1
RowOfEntry(r, e) == r.tag_id = e.epc /\ r.antenna_id = e.antenna /\ r.rc = 1

\* C18 (as stated): nothing is stored while only heartbeats and error messages
\* have arrived, and once a reading message has arrived the stored rows are
\* exactly one per tag entry of the first reading message, with rc = 1.
C18_StoresFirstReadingMessage ==
    /\ client.pc # "idle" /\ ReadingsSeen = {} => record = client.before
    /\ ReadingsSeen # {} =>
          LET m == client.seen[SetMin(ReadingsSeen)]
          IN  /\ Len(StoredBatch) = Len(m.tags)
              /\ \A i \in DOMAIN m.tags : RowOfEntry(StoredBatch[i], m.tags[i])

\* C18 (amended): as above when every tag entry of the first reading message
\* has a readable time and refers to a tag and an antenna in the store;
\* otherwise the function raises and only the entries before the offending
\* one, if any, are in the connection's transaction.  The first reading
\* message is the last message received.
C18_StoresFirstAcceptedBatch ==
    /\ client.pc # "idle" /\ ReadingsSeen = {} => record = client.before
    /\ ReadingsSeen # {} =>
          LET m == client.seen[SetMin(ReadingsSeen)]
              wellFormed ==
                  \A i \in DOMAIN m.tags :
                      /\ m.tags[i].lastSeenTime >= 0
                      /\ m.tags[i].epc \in DOMAIN tag
                      /\ m.tags[i].antenna \in antenna
          IN  /\ Finished \/ (client.pc = "closing" /\ client.pending = "ValueError")
              /\ ReadingsSeen = {Len(client.seen)}
              /\ \A i \in DOMAIN StoredBatch :
                    i \in DOMAIN m.tags /\ RowOfEntry(StoredBatch[i], m.tags[i])
              /\ wellFormed => /\ Len(StoredBatch) = Len(m.tags)
                               /\ Finished
                               /\ client.raised \in
                                     {"none", "ConnectionError", "HTTPError", "RuntimeError"}
              /\ ~wellFormed => /\ Len(StoredBatch) < Len(m.tags)
                                /\ client.pc \in {"closing", "raised"}

\* a heartbeat and an error message were skipped, then a reading message with
\* two tag entries was stored next to an earlier reading
C18_Witness ==
    /\ Finished
    /\ Len(client.seen) = 3
    /\ client.seen[1].type = "heartbeat"
    /\ client.seen[2].errorCode # 0 /\ client.seen[2].type = "reading"
    /\ ReadingsSeen = {3}
    /\ Len(client.seen[3].tags) = 2
    /\ Cardinality(NewRows) = 2
    /\ client.before # {}

\* C20: stop_reading is never called before start_reading has returned, not
\* while the stream is being read, and exactly once by the time the function
\* has finished after a successful start, on every path.
C20_StopExactlyOnceAfterStart ==
    LET starts == {i \in DOMAIN client.calls : client.calls[i] = "start_reading"}
        stops == {i \in DOMAIN client.calls : client.calls[i] = "stop_reading"}
    IN  /\ Cardinality(stops) <= 1
        /\ \A j \in stops : client.started /\ \E i \in starts : i < j
        /\ client.pc \in {"idle", "connecting", "streaming", "closing"} => stops = {}
        /\ ~client.started => stops = {}
        /\ Finished /\ client.started => Cardinality(stops) = 1

\* inserting the batch raised IntegrityError and stop_reading was still called
C20_Witness ==
    /\ client.pc = "raised"
    /\ client.raised = "IntegrityError"
    /\ client.calls = <<"start_reading", "stop_reading">>

=============================================================================
